---- MODULE Spec2Model ----
(***************************************************************************)
(* Model of the cached asset plan of cargo-playdate                         *)
(* (src/cargo/src/assets/plan.rs): plan_for, CachedPlan::new,               *)
(* CachedPlan::save and CachedPlan::apply acting on one cache file.         *)
(*                                                                          *)
(* A path is a string; a flattened plan is a sequence of (target, source)   *)
(* pairs in the order the plan builder produced them; the text of the       *)
(* cache file is the sequence of JSON tokens serde_json writes.             *)
(***************************************************************************)
EXTENDS Integers, Sequences, FiniteSets, TLC

VARIABLES
    cache,     \* the cache file at CachedPlan.path: [exists, text]
    cp,        \* the CachedPlan the caller holds: [state, plan, difference,
               \* serialized], with the verdict as first computed
    envReady,  \* LazyEnvBuilder.env: TRUE once the Lazy cell holds an Env
    last,      \* what the most recent call did and returned
    lazy,      \* LazyEnvBuilder.env: the Env the cell holds, and whether an
               \* initializer has failed in it
    procEnv,   \* the process environment, std::env::vars()
    sdkPath,   \* config.sdk_path
    got,       \* what the most recent LazyEnvBuilder::get did and returned
    files,     \* with two projects: the cache file at each cache path
    pipes,     \* with two projects: each project's build, its inputs and
               \* its CachedPlan
    assets,    \* pretty_print: the mappings of the plan being printed
    printed,   \* pretty_print: the result and the lines of the latest call
    workspace, \* possible_targets: the member packages of the workspace
    selected,  \* possible_targets: the packages the requested spec selects
    filter,    \* possible_targets: the compile filter
    possible,  \* possible_targets: the latest call, its input and its result
    bitmaps,   \* Bitmap: the Bitmap values of the program, by name
    allocated, \* Bitmap: the C bitmap pointers handed out so far
    freed,     \* Bitmap: how often each pointer was passed to free_bitmap
    bmLast     \* Bitmap: the latest operation

\* the state of the cached plan
cacheVars == <<cache, cp, last>>

\* the state of the environment resolver beyond the flag envReady
envVars == <<lazy, procEnv, sdkPath, got>>

\* the state of the two-project builds
twoVars == <<files, pipes>>

\* the state of pretty_print
printVars == <<assets, printed>>

\* the state of the target selection
targetVars == <<workspace, selected, filter, possible>>

\* the state of the bitmaps
bitmapVars == <<bitmaps, allocated, freed, bmLast>>

vars == <<cache, cp, envReady, last, lazy, procEnv, sdkPath, got, files, pipes,
          assets, printed, workspace, selected, filter, possible,
          bitmaps, allocated, freed, bmLast>>

----------------------------------------------------------------------------
(* Bounds of the model *)

\* longest flattened plan the plan builder hands over
MaxLen == 2

----------------------------------------------------------------------------
(* Paths and their string order *)

\* every path of the model, in the lexicographic order of String
PathNames == <<"a.png", "b.png", "x.png", "y.png">>

Targets == {"a.png", "b.png"}

Sources == {"x.png", "y.png"}

\* position of a path string in the lexicographic order
StrRank(s) == CHOOSE i \in 1..Len(PathNames) : PathNames[i] = s

\* Ord for String: a <= b
StrLeq(a, b) == StrRank(a) <= StrRank(b)

\* the items serializable_flatten() can yield, each a (target, source) pair:
\* a.png can be produced from either source, b.png from x.png
Pairs == {pair \in [target : Targets, source : Sources] :
             pair.target = "b.png" => pair.source = "x.png"}

SeqsUpTo(S, n) == UNION {[1..k -> S] : k \in 0..n}

\* the flattened plans the plan builder can produce
Plans == SeqsUpTo(Pairs, MaxLen)

----------------------------------------------------------------------------
(* Canonical form: CachedPlan::new, lines 111-113 *)

\* the key closure of sort_by_key: |(_, (p, _))| p.to_string_lossy().to_string();
\* p is the target path of the item
SortKey(item) == item.target

\* insert x behind every element whose key is <= its own (keeps ties in
\* arrival order, as a stable sort does)
RECURSIVE InsertStable(_, _)
InsertStable(x, sorted) ==
    IF sorted = <<>> THEN <<x>>
    ELSE IF StrLeq(SortKey(Head(sorted)), SortKey(x))
         THEN <<Head(sorted)>> \o InsertStable(x, Tail(sorted))
         ELSE <<x>> \o sorted

RECURSIVE SortFrom(_, _)
SortFrom(rest, sorted) ==
    IF rest = <<>> THEN sorted
    ELSE SortFrom(Tail(rest), InsertStable(Head(rest), sorted))

\* SortByKey with the sort left out
SortByKeyUnsorted(items) == items

\* Vec::sort_by_key: a stable sort on the key alone
SortByKey(items) == SortFrom(items, <<>>)

\* a JSON string token sequence
JsonString(s) == <<"\"", s, "\"">>

\* one tuple serialised as a JSON array
JsonItem(item) ==
    <<"[">> \o JsonString(item.target) \o <<",">> \o JsonString(item.source) \o <<"]">>

RECURSIVE JsonItems(_)
JsonItems(items) ==
    IF items = <<>> THEN <<>>
    ELSE IF Len(items) = 1 THEN JsonItem(Head(items))
    ELSE JsonItem(Head(items)) \o <<",">> \o JsonItems(Tail(items))

\* serde_json::to_string of the Vec
ToJson(items) == <<"[">> \o JsonItems(items) \o <<"]">>

\* the text CachedPlan::new computes for a plan
CanonicalTable == [plan \in Plans |-> ToJson(SortByKey(plan))]

Canonical(plan) == CanonicalTable[plan]

----------------------------------------------------------------------------
(* The cache file *)

Absent == [exists |-> FALSE, text |-> <<>>]

File(text) == [exists |-> TRUE, text |-> text]

\* Option<String>
NoneStr == [some |-> FALSE, data |-> <<>>]

SomeStr(text) == [some |-> TRUE, data |-> text]

\* steps of plan_for / CachedPlan::new that can return an error through `?`
Failures == {"none", "env", "parent", "builder", "serialize", "exists", "read"}

----------------------------------------------------------------------------
(* CachedPlan::new *)

\* Difference with the two branches of the comparison exchanged
DifferenceSwapped(c, json, fail) ==
    IF fail = "exists" THEN "Error"
    ELSE IF c.exists
         THEN IF fail = "read" THEN "Error"
              ELSE IF c.text = json THEN "Different" ELSE "Same"
         ELSE "Missing"

\* Difference with a failed read taken for a missing file
DifferenceReadDegrades(c, json, fail) ==
    IF fail = "exists" THEN "Error"
    ELSE IF c.exists
         THEN IF fail = "read" THEN "Missing"
              ELSE IF c.text = json THEN "Same" ELSE "Different"
         ELSE "Missing"

\* lines 115-126: the verdict, or "Error" for the early return of a `?`
Difference(c, json, fail) ==
    IF fail = "exists" THEN "Error"
    ELSE IF c.exists
         THEN IF fail = "read" THEN "Error"
              ELSE IF c.text = json THEN "Same" ELSE "Different"
         ELSE "Missing"

\* Serialized with the payload kept for every verdict
SerializedAlways(difference, json) == SomeStr(json)

\* Serialized without the negation
SerializedInverted(difference, json) ==
    IF difference = "Same" THEN SomeStr(json) ELSE NoneStr

\* line 128: (!difference.is_same()).then_some(json)
Serialized(difference, json) ==
    IF difference # "Same" THEN SomeStr(json) ELSE NoneStr

\* ForceOverride without the override
ForceIgnored(force, difference) == difference

\* lines 83-85 of plan_for: the force-rebuild override
ForceOverride(force, difference) ==
    IF force THEN "Missing" ELSE difference

NoPlan == [state |-> "none", plan |-> <<>>, difference |-> "Missing",
           computed |-> "Missing", serialized |-> NoneStr]

\* lines 110-134: the CachedPlan built for a plan against the cache file c
CachedPlanNew(c, plan, fail) ==
    LET json == Canonical(plan)
        d    == Difference(c, json, fail)
    IN  IF fail = "serialize" \/ d = "Error" THEN NoPlan
        ELSE [state |-> "live", plan |-> plan, difference |-> d,
              computed |-> d, serialized |-> Serialized(d, json)]

----------------------------------------------------------------------------
(* plan_for: which of its steps run *)

\* the fallible steps of plan_for and CachedPlan::new, in program order
StepOrder == <<"env", "parent", "builder", "serialize", "exists", "read">>

StepNo(step) == CHOOSE i \in 1..Len(StepOrder) : StepOrder[i] = step

\* whether the fallible operation of a step is performed once control is there:
\* the initializer runs only in an empty Lazy cell (line 39), the file is read
\* only when try_exists answered true (lines 115-116)
Applicable(step, ready, c) ==
    CASE step = "env"  -> ~ready
      [] step = "read" -> c.exists
      [] OTHER         -> TRUE

\* the `?` of step `fail` returns the error
Hits(rulesEmpty, ready, c, fail) ==
    /\ ~rulesEmpty
    /\ fail # "none"
    /\ Applicable(fail, ready, c)

\* Reaches with the emptiness test of line 75 placed after the steps
ReachesBeforeEmptyCheck(rulesEmpty, ready, c, fail, step) ==
    (fail # "none" /\ Applicable(fail, ready, c)) => StepNo(step) <= StepNo(fail)

\* control of plan_for reaches the step (line 75: nothing runs for empty rules)
Reaches(rulesEmpty, ready, c, fail, step) ==
    /\ ~rulesEmpty
    /\ Hits(rulesEmpty, ready, c, fail) => StepNo(step) <= StepNo(fail)

\* the step's operation is performed in this call
Performs(rulesEmpty, ready, c, fail, step) ==
    /\ Reaches(rulesEmpty, ready, c, fail, step)
    /\ Applicable(step, ready, c)

\* an error returned before CachedPlan::new is called (lines 76-80)
EarlyError(rulesEmpty, ready, c, fail) ==
    /\ Hits(rulesEmpty, ready, c, fail)
    /\ fail \in {"env", "parent", "builder"}

\* lines 74-89: the CachedPlan plan_for returns (NoPlan for None and for Err)
PlanForValue(rulesEmpty, force, plan, fail, ready, c) ==
    IF rulesEmpty \/ EarlyError(rulesEmpty, ready, c, fail) THEN NoPlan
    ELSE LET cached == CachedPlanNew(c, plan, fail)
         IN  IF cached.state = "none" THEN NoPlan
             ELSE [cached EXCEPT !.difference = ForceOverride(force, @)]

\* Ok(None), Ok(Some(..)) or Err(..)
PlanForResult(rulesEmpty, value) ==
    IF rulesEmpty THEN "none"
    ELSE IF value.state = "live" THEN "some" ELSE "err"

----------------------------------------------------------------------------
(* Writing the cache file *)

\* std::fs::write: the whole text replaces the file; a failed write either
\* never opened the file or left it truncated
WriteOutcomes == {"ok", "fail_open", "fail_truncated"}

WriteFile(c, data, w) ==
    CASE w = "ok"             -> File(data)
      [] w = "fail_open"      -> c
      [] w = "fail_truncated" -> File(<<>>)

\* BuildReport::has_errors over the set of failed mappings
HasErrors(failed) == failed # {}

\* ApplyWrites without the has_errors test
ApplyWritesIgnoringErrors(hasErrors, serialized) == serialized.some

\* ApplyWrites with the has_errors test inverted
ApplyWritesOnErrors(hasErrors, serialized) == hasErrors /\ serialized.some

\* lines 156-157 of apply: the cache is written for an error-free report
\* and a pending payload only
ApplyWrites(hasErrors, serialized) == ~hasErrors /\ serialized.some

\* Materializes with a Same verdict taken as nothing to do
MaterializesUnlessSame(difference) == difference # "Same"

\* line 153 of apply: apply_build_plan is called with the whole plan; the
\* verdict is not looked at
Materializes(difference) == TRUE

\* ReportReturned with the error of apply_build_plan swallowed
ReportReturnedAlways(hard) == TRUE

\* the `?` of line 153: apply goes on only with a report in hand
ReportReturned(hard) == ~hard

\* line 139 of save: the cache is written whenever a payload is pending
SaveWrites(serialized) == serialized.some

\* CachedPlan::new that stores the serialisation as soon as it has looked
\* at the cache file
CacheAfterNewStored(c, json) == File(json)

\* lines 115-116: try_exists and read_to_string look at the cache file and
\* leave it as it is
CacheAfterNew(c, json) == c

----------------------------------------------------------------------------
(* LazyEnvBuilder::get, lines 38-60 *)

\* playdate::consts::SDK_ENV_VAR
SDK_ENV_VAR == "PLAYDATE_SDK_PATH"

\* the variable names of the model
EnvKeys == {"CARGO_PKG_NAME", "CARGO_MANIFEST_DIR", SDK_ENV_VAR, "HOME"}

\* self.package.name()
PackageName == "game"

\* self.package.root()
PackageRoot == "/proj"

\* Option<PathBuf>
NoPath == [some |-> FALSE, path |-> ""]

SomePath(path) == [some |-> TRUE, path |-> path]

\* an Env without variables
EmptyEnv == [k \in {} |-> ""]

\* lines 41-47: the explicit project variables, in the order of the vec
ExplicitVars(sdk) ==
    <<<<"CARGO_PKG_NAME", PackageName>>, <<"CARGO_MANIFEST_DIR", PackageRoot>>>>
      \o (IF sdk.some THEN <<<<SDK_ENV_VAR, sdk.path>>>> ELSE <<>>)

\* Env::from_iter: the map of the pairs, a later pair replacing an earlier
\* one of the same key
EnvFromIter(pairs) ==
    [k \in {pairs[i][1] : i \in 1..Len(pairs)} |->
        pairs[CHOOSE i \in 1..Len(pairs) :
                 /\ pairs[i][1] = k
                 /\ \A j \in (i + 1)..Len(pairs) : pairs[j][1] # k][2]]

\* AddGlobalEnv with the contains_key test left out
AddGlobalEnvOverwriting(env, proc) ==
    [k \in DOMAIN env \cup DOMAIN proc |->
        IF k \in DOMAIN proc THEN proc[k] ELSE env[k]]

\* lines 52-56: a process variable is inserted only under a key the Env
\* does not hold yet
AddGlobalEnv(env, proc) ==
    [k \in DOMAIN env \cup DOMAIN proc |->
        IF k \in DOMAIN env THEN env[k] ELSE proc[k]]

\* lines 40-58: the Env the initializer closure builds
Initializer(sdk, proc) == AddGlobalEnv(EnvFromIter(ExplicitVars(sdk)), proc)

NoGet == [result |-> "none", ran |-> FALSE, value |-> EmptyEnv]

\* the environment resolver at rest: what the model of the cached plan keeps
EnvAtRest ==
    /\ lazy = [failed |-> FALSE, value |-> EmptyEnv]
    /\ procEnv = EmptyEnv
    /\ sdkPath = NoPath
    /\ got = NoGet

----------------------------------------------------------------------------
(* Two projects, each with its own cache path *)

\* the packages built side by side
Projects == {"game", "demo"}

\* layout.assets_plan_for(config, package), line 81: a path made from the
\* package's identity
AssetsPlanFor(package) == <<"assets", package, "plan.json">>

CachePaths == {AssetsPlanFor(package) : package \in Projects}

\* WrittenPath with one path used for every project
WrittenPathShared(self) == AssetsPlanFor("game")

\* lines 140 and 158: the file written is the one at self.path
WrittenPath(self) == self.path

\* line 115-116: the file probed and read is the one at the path given to new
ReadPath(path) == path

\* a build that has not called plan_for yet
PipeAtStart(file0, plan, force, errors) ==
    [pc |-> "start", path |-> <<>>, file0 |-> file0, plan |-> plan,
     force |-> force, errors |-> errors, saved |-> FALSE, cp |-> NoPlan]

\* the two-project builds at rest: what the other models keep
TwoAtRest ==
    /\ files = [path \in CachePaths |-> Absent]
    /\ pipes = [package \in Projects |-> PipeAtStart(Absent, <<>>, FALSE, FALSE)]

----------------------------------------------------------------------------
(* CachedPlan::pretty_print, lines 190-248 *)

\* the rule expression pairs (left, right) mappings originate from
Exprs == {<<"*.png", "true">>, <<"img/", "art/*">>}

\* an included file: its target and source paths, relative to the root, as
\* sequences of characters
Inc(target, source) == [target |-> target, source |-> source]

Incs == {Inc(<<"a">>, <<"x">>), Inc(<<"b", "b">>, <<"y">>)}

\* the source lists of a ManyInto mapping
ManySources ==
    {<<>>} \cup {<<inc>> : inc \in Incs}
           \cup {pair \in Incs \X Incs : pair[1] # pair[2]}

\* the target directory of a ManyInto mapping
ManyTarget == <<"d">>

\* Mapping::AsIs, Mapping::Into and Mapping::ManyInto (lines 204-213)
AsIs(inc, exprs) == [kind |-> "AsIs", inc |-> inc, exprs |-> exprs]

Into(inc, exprs) == [kind |-> "Into", inc |-> inc, exprs |-> exprs]

ManyInto(sources, target, exprs) ==
    [kind |-> "ManyInto", sources |-> sources, target |-> target, exprs |-> exprs]

Mappings ==
    {AsIs(inc, exprs) : inc \in Incs, exprs \in Exprs}
    \cup {Into(inc, exprs) : inc \in Incs, exprs \in Exprs}
    \cup {ManyInto(sources, ManyTarget, exprs) : sources \in ManySources, exprs \in Exprs}

\* the plans pretty_print is called on
AssetPlans == SeqsUpTo(Mappings, MaxLen)

\* line 195: format!("rule: {} = {}", left.original(), right.original())
Title(exprs) == <<"rule: ", exprs[1], " = ", exprs[2]>>

\* Path::join of line 216
Join(dir, rel) == dir \o <<"/">> \o rel

\* lines 196-199: the left column is the target after two spaces, the
\* right column is the source
RowColumns(target, source) == [left |-> <<" ", " ">> \o target, right |-> source]

\* lines 204-218: the rows one mapping contributes
RowsOf(mapping) ==
    IF mapping.kind = "ManyInto"
    THEN [i \in 1..Len(mapping.sources) |->
            RowColumns(Join(mapping.target, mapping.sources[i].target),
                       mapping.sources[i].source)]
    ELSE <<RowColumns(mapping.inc.target, mapping.inc.source)>>

\* HashMap::insert (lines 205, 208, 218): the value of an existing key is
\* replaced
Insert(sections, title, rows) ==
    [t \in DOMAIN sections \cup {title} |-> IF t = title THEN rows ELSE sections[t]]

\* lines 201-221: the sections after the loop over the first n mappings
RECURSIVE SectionsOf(_, _)
SectionsOf(mappings, n) ==
    IF n = 0 THEN [t \in {} |-> <<>>]
    ELSE Insert(SectionsOf(mappings, n - 1), Title(mappings[n].exprs), RowsOf(mappings[n]))

\* the larger of two numbers
Larger(a, b) == IF a >= b THEN a ELSE b

\* the longest left column of a list of rows, at least least
RECURSIVE MaxLeft(_, _)
MaxLeft(rows, least) ==
    IF rows = <<>> THEN least
    ELSE MaxLeft(Tail(rows), Larger(Len(Head(rows).left), least))

\* lines 224-229: max_len over all rows of all sections
RECURSIVE MaxLenOf(_, _, _)
MaxLenOf(sections, titles, least) ==
    IF titles = {} THEN least
    ELSE LET t == CHOOSE t \in titles : TRUE
         IN  MaxLenOf(sections, titles \ {t}, MaxLeft(sections[t], least))

\* lines 234-235: the left column padded with spaces to max_len
Padded(left, max_len) == left \o [i \in 1..(max_len - Len(left)) |-> " "]

\* line 243: format!("{left} <- {right}")
RowLine(row, max_len) == Padded(row.left, max_len) \o <<" <- ">> \o row.right

\* lines 241-244: the lines of one section
SectionLines(title, rows, max_len) ==
    <<title>> \o [i \in 1..Len(rows) |-> RowLine(rows[i], max_len)]

\* the orders in which the iteration of a HashMap can visit its keys
IterationOrders(sections) ==
    {order \in [1..Cardinality(DOMAIN sections) -> DOMAIN sections] :
        \A i, j \in DOMAIN order : order[i] = order[j] => i = j}

\* lines 240-245: the lines of all sections, visited in the given order
RECURSIVE LinesOf(_, _, _)
LinesOf(sections, order, max_len) ==
    IF order = <<>> THEN <<>>
    ELSE SectionLines(Head(order), sections[Head(order)], max_len)
            \o LinesOf(sections, Tail(order), max_len)

\* shell.status(...)? (lines 241, 243): a failing call ends the printing;
\* failAt = 0 when no call fails
Emitted(lines, failAt) ==
    IF failAt = 0 THEN lines ELSE SubSeq(lines, 1, failAt - 1)

\* nothing printed yet
NotPrinted == [result |-> "none", lines |-> <<>>]

\* pretty_print at rest: what the other models keep
PrintAtRest ==
    /\ assets = <<>>
    /\ printed = NotPrinted

----------------------------------------------------------------------------
(* Config::possible_targets_with and possible_targets_ext, workspace.rs *)

\* a package: its name and its targets, in manifest order
Package(name, targets) == [name |-> name, targets |-> targets]

\* the packages of the workspace
PackagePool ==
    {Package("game", <<"game-lib", "game-bin">>),
     Package("tool", <<"tool-bin">>),
     Package("docs", <<>>)}

TargetNames == {"game-lib", "game-bin", "tool-bin"}

\* the compile filters: all-targets or not, and the targets target_run accepts
Filters == [allTargets : BOOLEAN, runs : SUBSET TargetNames]

\* the package lists handed to possible_targets_with
PackageLists == SeqsUpTo(PackagePool, MaxLen)

\* line 53: filter.is_all_targets() || filter.target_run(t)
Accepted(f, t) == f.allTargets \/ t \in f.runs

\* lines 51-54: the accepted targets of a package, in their order
RECURSIVE FilterTargets(_, _)
FilterTargets(f, targets) ==
    IF targets = <<>> THEN <<>>
    ELSE (IF Accepted(f, Head(targets)) THEN <<Head(targets)>> ELSE <<>>)
            \o FilterTargets(f, Tail(targets))

\* a closure that yields the package whatever its targets
YieldedAlways(p, targets) == <<[package |-> p, targets |-> targets]>>

\* line 55: (!targets.is_empty()).then(|| (p, targets))
Yielded(p, targets) ==
    IF targets # <<>> THEN <<[package |-> p, targets |-> targets]>> ELSE <<>>

\* lines 50-56: filter_map over the members, in their order
RECURSIVE PossibleTargetsWithValue(_, _)
PossibleTargetsWithValue(f, members) ==
    IF members = <<>> THEN <<>>
    ELSE Yielded(Head(members), FilterTargets(f, Head(members).targets))
            \o PossibleTargetsWithValue(f, Tail(members))

\* lines 30-36: the packages of the spec, or the workspace members when the
\* spec selects none
ExtInput(packages, members) == IF packages = <<>> THEN members ELSE packages

\* no call yet
NoCall == [op |-> "none", result |-> "none", input |-> <<>>, value |-> <<>>]

\* the target selection at rest: what the other models keep
TargetsAtRest ==
    /\ workspace = <<>>
    /\ selected = <<>>
    /\ filter = [allTargets |-> FALSE, runs |-> {}]
    /\ possible = NoCall

----------------------------------------------------------------------------
(* Bitmap, bitmap.rs *)

\* the C bitmaps the system can hand out, and the null pointer
Pointers == {"p1", "p2", "p3"}

Null == "null"

\* the names of the Bitmap values of the program
Handles == {"b1", "b2", "b3"}

\* a name that holds no Bitmap yet
Unused == [state |-> "unused", ptr |-> Null, fod |-> FALSE, origin |-> "none"]

\* Bitmap(ptr, api) with its FREE_ON_DROP parameter (line 72)
Bitmap(ptr, fod, origin) == [state |-> "live", ptr |-> ptr, fod |-> fod, origin |-> origin]

\* into_shared that leaves the pointer in the original
MovedFromKept(ptr) == ptr

\* line 91: self.0 = core::ptr::null_mut()
MovedFrom(ptr) == Null

\* line 191: FOD && !self.0.is_null()
DropFrees(fod, ptr) == fod /\ ptr # Null

\* lines 192-194: the count of free_bitmap calls after a drop
FreedAfterDrop(counts, fod, ptr) ==
    IF DropFrees(fod, ptr) THEN [counts EXCEPT ![ptr] = @ + 1] ELSE counts

\* lines 191-195: the pointer field after a drop
PtrAfterDrop(fod, ptr) == IF DropFrees(fod, ptr) THEN Null ELSE ptr

\* no bitmap operation yet
NoOp == [op |-> "none", result |-> "none", fod |-> FALSE, ptr |-> Null]

\* the bitmaps at rest: what the other models keep
BitmapsAtRest ==
    /\ bitmaps = [h \in Handles |-> Unused]
    /\ allocated = {}
    /\ freed = [p \in Pointers |-> 0]
    /\ bmLast = NoOp

----------------------------------------------------------------------------
(* State *)

Idle == [op |-> "init", result |-> "none", force |-> FALSE, rulesEmpty |-> FALSE,
         fail |-> "none", envRan |-> FALSE, builderRan |-> FALSE,
         probed |-> FALSE, read |-> FALSE, wrote |-> FALSE, report |-> "none",
         materialized |-> FALSE]

\* texts a cache file can hold before the first call: the serialisation of
\* any item list (sorted or not) and the empty file
InitialTexts == {ToJson(items) : items \in Plans} \cup {<<>>}

Init ==
    /\ cache \in {Absent} \cup {File(t) : t \in InitialTexts}
    /\ cp = NoPlan
    /\ envReady = FALSE
    /\ last = Idle
    /\ EnvAtRest
    /\ TwoAtRest
    /\ PrintAtRest
    /\ TargetsAtRest
    /\ BitmapsAtRest

\* LazyEnvBuilder::new (lines 32-36): a build invocation starts with an empty cell
NewEnv ==
    /\ envReady' = FALSE
    /\ last' = [Idle EXCEPT !.op = "env_new"]
    /\ UNCHANGED <<cache, cp>>
    /\ UNCHANGED <<envVars, twoVars, printVars, targetVars, bitmapVars>>

\* plan_for (lines 68-90) with CachedPlan::new (lines 110-134)
PlanFor(rulesEmpty, force, plan, fail) ==
    LET value == PlanForValue(rulesEmpty, force, plan, fail, envReady, cache)
    IN  /\ cp' = value
        /\ envReady' = (envReady \/
                        (Performs(rulesEmpty, envReady, cache, fail, "env") /\ fail # "env"))
        /\ last' = [Idle EXCEPT
                      !.op = "plan_for",
                      !.result = PlanForResult(rulesEmpty, value),
                      !.force = force,
                      !.rulesEmpty = rulesEmpty,
                      !.fail = fail,
                      !.envRan = Performs(rulesEmpty, envReady, cache, fail, "env"),
                      !.builderRan = Performs(rulesEmpty, envReady, cache, fail, "builder"),
                      !.probed = Performs(rulesEmpty, envReady, cache, fail, "exists"),
                      !.read = Performs(rulesEmpty, envReady, cache, fail, "read")]
        /\ cache' = IF Performs(rulesEmpty, envReady, cache, fail, "exists")
                    THEN CacheAfterNew(cache, Canonical(plan))
                    ELSE cache
        /\ UNCHANGED <<envVars, twoVars, printVars, targetVars, bitmapVars>>

\* CachedPlan::save (lines 138-144)
Save(w) ==
    /\ cp.state = "live"
    /\ cache' = IF SaveWrites(cp.serialized) THEN WriteFile(cache, cp.serialized.data, w)
                ELSE cache
    /\ last' = [Idle EXCEPT
                  !.op = "save",
                  !.result = IF SaveWrites(cp.serialized) /\ w # "ok" THEN "err" ELSE "ok",
                  !.wrote = SaveWrites(cp.serialized)]
    /\ UNCHANGED <<cp, envReady>>
    /\ UNCHANGED <<envVars, twoVars, printVars, targetVars, bitmapVars>>

\* CachedPlan::apply (lines 147-176): hard = apply_build_plan returned Err,
\* failed = the mappings the report marks as failed
Apply(hard, failed, w) ==
    /\ cp.state = "live"
    /\ LET writes == ReportReturned(hard) /\ ApplyWrites(HasErrors(failed), cp.serialized)
       IN  /\ cache' = IF writes THEN WriteFile(cache, cp.serialized.data, w) ELSE cache
           /\ last' = [Idle EXCEPT
                         !.op = "apply",
                         !.result = IF hard \/ (writes /\ w # "ok") THEN "err" ELSE "ok",
                         !.wrote = writes,
                         !.materialized = Materializes(cp.difference),
                         !.report = IF hard THEN "none"
                                    ELSE IF HasErrors(failed) THEN "errors" ELSE "clean"]
    /\ cp' = [cp EXCEPT !.state = "consumed"]
    /\ UNCHANGED envReady
    /\ UNCHANGED <<envVars, twoVars, printVars, targetVars, bitmapVars>>

Next ==
    \/ NewEnv
    \/ \E rulesEmpty \in BOOLEAN, force \in BOOLEAN :
         \E fail \in {f \in Failures : f = "none" \/ Applicable(f, envReady, cache)} :
            \E plan \in IF rulesEmpty \/ fail # "none" THEN {<<>>} ELSE Plans :
               PlanFor(rulesEmpty, force, plan, fail)
    \/ \E w \in WriteOutcomes : Save(w)
    \/ \E hard \in BOOLEAN, w \in WriteOutcomes :
         \E failed \in IF hard THEN {{}} ELSE SUBSET (1..Len(cp.plan)) :
            Apply(hard, failed, w)

Spec == Init /\ [][Next]_vars

----------------------------------------------------------------------------
(* The environment resolver on its own *)

\* the process environments of the model: any of the names, each with the
\* value the process gives it
ProcessEnvs == UNION {[keys -> {"inherited"}] : keys \in SUBSET EnvKeys}

EnvInit ==
    /\ cache = Absent
    /\ cp = NoPlan
    /\ last = Idle
    /\ envReady = FALSE
    /\ lazy = [failed |-> FALSE, value |-> EmptyEnv]
    /\ procEnv \in ProcessEnvs
    /\ sdkPath \in {NoPath, SomePath("/sdk")}
    /\ got = NoGet
    /\ TwoAtRest
    /\ PrintAtRest
    /\ TargetsAtRest
    /\ BitmapsAtRest

\* LazyEnvBuilder::get (lines 38-60) on a cell that holds an Env:
\* try_get_or_create returns it without calling the closure
GetReady ==
    /\ got.result # "panic"
    /\ envReady
    /\ got' = [result |-> "ok", ran |-> FALSE, value |-> lazy.value]
    /\ UNCHANGED <<lazy, envReady, procEnv, sdkPath>>
    /\ UNCHANGED <<cacheVars, twoVars, printVars, targetVars, bitmapVars>>

\* LazyEnvBuilder::get on an empty cell: the closure runs; assemblyFails is
\* Env::from_iter returning an error
GetCreate(assemblyFails) ==
    /\ got.result # "panic"
    /\ ~envReady
    /\ IF assemblyFails
       THEN /\ got' = [result |-> "err", ran |-> TRUE, value |-> EmptyEnv]
            /\ lazy' = [lazy EXCEPT !.failed = TRUE]
            /\ UNCHANGED envReady
       ELSE /\ got' = [result |-> "ok", ran |-> TRUE,
                       value |-> Initializer(sdkPath, procEnv)]
            /\ lazy' = [lazy EXCEPT !.value = Initializer(sdkPath, procEnv)]
            /\ envReady' = TRUE
    /\ UNCHANGED <<procEnv, sdkPath>>
    /\ UNCHANGED <<cacheVars, twoVars, printVars, targetVars, bitmapVars>>

\* LazyEnvBuilder::get on a cell whose initializer failed before: what
\* try_get_or_create does then is fixed by the crate try_lazy_init; besides
\* running the closure again (GetCreate) the call may panic
GetPanics ==
    /\ got.result # "panic"
    /\ ~envReady
    /\ lazy.failed
    /\ got' = [result |-> "panic", ran |-> FALSE, value |-> EmptyEnv]
    /\ UNCHANGED <<lazy, envReady, procEnv, sdkPath>>
    /\ UNCHANGED <<cacheVars, twoVars, printVars, targetVars, bitmapVars>>

EnvNext ==
    \/ GetReady
    \/ \E assemblyFails \in BOOLEAN : GetCreate(assemblyFails)
    \/ GetPanics

SpecEnv == EnvInit /\ [][EnvNext]_vars

----------------------------------------------------------------------------
(* Two builds interleaved *)

\* what a project's cache file holds before its build: nothing, or the
\* canonical form of the empty plan
StartFiles == {Absent, File(ToJson(<<>>))}

TwoInit ==
    /\ cache = Absent
    /\ cp = NoPlan
    /\ last = Idle
    /\ envReady = FALSE
    /\ EnvAtRest
    /\ PrintAtRest
    /\ TargetsAtRest
    /\ BitmapsAtRest
    /\ pipes \in [Projects ->
                    {PipeAtStart(file0, plan, force, errors) :
                        file0 \in StartFiles, plan \in Plans,
                        force \in BOOLEAN, errors \in BOOLEAN}]
    /\ files = [path \in CachePaths |->
                  pipes[CHOOSE package \in Projects :
                           AssetsPlanFor(package) = path].file0]

\* plan_for (lines 81-86) for one package: the plan is wrapped in a
\* CachedPlan at the package's cache path
Construct(package) ==
    LET pipe == pipes[package]
        path == AssetsPlanFor(package)
    IN  /\ pipe.pc = "start"
        /\ pipes' = [pipes EXCEPT ![package] =
                        [pipe EXCEPT
                           !.pc = "constructed",
                           !.path = path,
                           !.cp = PlanForValue(FALSE, pipe.force, pipe.plan, "none",
                                               TRUE, files[ReadPath(path)])]]
        /\ UNCHANGED files
        /\ UNCHANGED <<cacheVars, envReady, envVars, printVars, targetVars, bitmapVars>>

\* CachedPlan::save (lines 138-144) for one package; the write succeeds
SaveOne(package) ==
    LET pipe == pipes[package]
    IN  /\ pipe.pc = "constructed"
        /\ files' = IF SaveWrites(pipe.cp.serialized)
                    THEN [files EXCEPT ![WrittenPath(pipe)] =
                            WriteFile(@, pipe.cp.serialized.data, "ok")]
                    ELSE files
        /\ pipes' = [pipes EXCEPT ![package] = [pipe EXCEPT !.saved = TRUE]]
        /\ UNCHANGED <<cacheVars, envReady, envVars, printVars, targetVars, bitmapVars>>

\* CachedPlan::apply (lines 147-176) for one package; the report of
\* apply_build_plan has errors or not, the write succeeds
ApplyOne(package) ==
    LET pipe == pipes[package]
    IN  /\ pipe.pc = "constructed"
        /\ files' = IF ApplyWrites(pipe.errors, pipe.cp.serialized)
                    THEN [files EXCEPT ![WrittenPath(pipe)] =
                            WriteFile(@, pipe.cp.serialized.data, "ok")]
                    ELSE files
        /\ pipes' = [pipes EXCEPT ![package] =
                        [pipe EXCEPT !.pc = "done", !.cp.state = "consumed"]]
        /\ UNCHANGED <<cacheVars, envReady, envVars, printVars, targetVars, bitmapVars>>

TwoNext ==
    \/ \E package \in Projects : Construct(package)
    \/ \E package \in Projects : SaveOne(package)
    \/ \E package \in Projects : ApplyOne(package)

SpecTwo == TwoInit /\ [][TwoNext]_vars

----------------------------------------------------------------------------
(* Printing a plan *)

PrintInit ==
    /\ cache = Absent
    /\ cp = NoPlan
    /\ last = Idle
    /\ envReady = FALSE
    /\ EnvAtRest
    /\ TwoAtRest
    /\ TargetsAtRest
    /\ BitmapsAtRest
    /\ assets \in AssetPlans
    /\ printed = NotPrinted

\* CachedPlan::pretty_print (lines 190-248): order is the order in which the
\* HashMap is iterated, failAt the shell.status call that fails (0: none)
PrettyPrint(order, failAt) ==
    LET sections == SectionsOf(assets, Len(assets))
        lines == LinesOf(sections, order, MaxLenOf(sections, DOMAIN sections, 0))
    IN  /\ order \in IterationOrders(sections)
        /\ failAt \in 0..Len(lines)
        /\ printed' = [result |-> IF failAt = 0 THEN "ok" ELSE "err",
                       lines |-> Emitted(lines, failAt)]
        /\ UNCHANGED assets
        /\ UNCHANGED <<cacheVars, envReady, envVars, twoVars, targetVars, bitmapVars>>

PrintNext ==
    \E order \in UNION {[1..n -> {Title(exprs) : exprs \in Exprs}] :
                            n \in 0..Cardinality(Exprs)} :
        \E failAt \in 0..(Cardinality(Exprs) + MaxLen * Cardinality(Incs)) :
            PrettyPrint(order, failAt)

SpecPrint == PrintInit /\ [][PrintNext]_vars

----------------------------------------------------------------------------
(* Selecting targets *)

TargetsInit ==
    /\ cache = Absent
    /\ cp = NoPlan
    /\ last = Idle
    /\ envReady = FALSE
    /\ EnvAtRest
    /\ TwoAtRest
    /\ PrintAtRest
    /\ BitmapsAtRest
    /\ workspace \in PackageLists
    /\ selected \in PackageLists
    /\ filter \in Filters
    /\ possible = NoCall

\* possible_targets_with (lines 47-58) on a list of packages
PossibleTargetsWith(members) ==
    /\ possible' = [op |-> "with", result |-> "ok", input |-> members,
                    value |-> PossibleTargetsWithValue(filter, members)]
    /\ UNCHANGED <<workspace, selected, filter>>
    /\ UNCHANGED <<cacheVars, envReady, envVars, twoVars, printVars, bitmapVars>>

\* possible_targets_ext (lines 27-38): failed is the step that returns Err
\* ("packages": get_packages, "members": members_with_features), or "none"
PossibleTargetsExt(failed) ==
    /\ failed = "members" => selected = <<>>
    /\ possible' = IF failed # "none"
                   THEN [op |-> "ext", result |-> "err", input |-> <<>>, value |-> <<>>]
                   ELSE [op |-> "ext", result |-> "ok",
                         input |-> ExtInput(selected, workspace),
                         value |-> PossibleTargetsWithValue(filter, ExtInput(selected, workspace))]
    /\ UNCHANGED <<workspace, selected, filter>>
    /\ UNCHANGED <<cacheVars, envReady, envVars, twoVars, printVars, bitmapVars>>

TargetsNext ==
    \/ \E ofSpec \in BOOLEAN :
          PossibleTargetsWith(IF ofSpec THEN selected ELSE workspace)
    \/ \E failed \in {"none", "packages", "members"} : PossibleTargetsExt(failed)

SpecTargets == TargetsInit /\ [][TargetsNext]_vars

----------------------------------------------------------------------------
(* Owning bitmaps *)

BitmapInit ==
    /\ cache = Absent
    /\ cp = NoPlan
    /\ last = Idle
    /\ envReady = FALSE
    /\ EnvAtRest
    /\ TwoAtRest
    /\ PrintAtRest
    /\ TargetsAtRest
    /\ bitmaps = [h \in Handles |-> Unused]
    /\ allocated = {}
    /\ freed = [p \in Pointers |-> 0]
    /\ bmLast = NoOp

\* the program has not panicked
Running == bmLast.result # "panic"

\* Bitmap::new, Bitmap::load (lines 122-166): the C side returns a new bitmap
\* or null
NewOrLoad(h, via, ptr) ==
    /\ Running
    /\ bitmaps[h].state = "unused"
    /\ ptr \in (Pointers \ allocated) \cup {Null}
    /\ IF ptr = Null
       THEN /\ bmLast' = [op |-> via, result |-> "err", fod |-> TRUE, ptr |-> Null]
            /\ UNCHANGED <<bitmaps, allocated>>
       ELSE /\ bmLast' = [op |-> via, result |-> "ok", fod |-> TRUE, ptr |-> ptr]
            /\ bitmaps' = [bitmaps EXCEPT ![h] = Bitmap(ptr, TRUE, via)]
            /\ allocated' = allocated \cup {ptr}
    /\ UNCHANGED freed
    /\ UNCHANGED <<cacheVars, envReady, envVars, twoVars, printVars, targetVars>>

\* Clone for Bitmap<Api, true> (lines 199-209): copy_bitmap returns a new
\* bitmap, or null and clone panics
Clone(h, to, ptr) ==
    /\ Running
    /\ bitmaps[h].state = "live"
    /\ bitmaps[h].fod
    /\ bitmaps[to].state = "unused"
    /\ ptr \in (Pointers \ allocated) \cup {Null}
    /\ IF ptr = Null
       THEN /\ bmLast' = [op |-> "clone", result |-> "panic", fod |-> TRUE, ptr |-> Null]
            /\ UNCHANGED <<bitmaps, allocated>>
       ELSE /\ bmLast' = [op |-> "clone", result |-> "ok", fod |-> TRUE, ptr |-> ptr]
            /\ bitmaps' = [bitmaps EXCEPT ![to] = Bitmap(ptr, TRUE, "clone")]
            /\ allocated' = allocated \cup {ptr}
    /\ UNCHANGED freed
    /\ UNCHANGED <<cacheVars, envReady, envVars, twoVars, printVars, targetVars>>

\* into_shared (lines 89-93): the result takes the pointer, the original is
\* set to null and dropped at the end of the function
IntoShared(h, to) ==
    LET ptr == bitmaps[h].ptr
        left == MovedFrom(ptr)
    IN  /\ Running
        /\ bitmaps[h].state = "live"
        /\ bitmaps[h].fod
        /\ bitmaps[to].state = "unused"
        /\ bitmaps' = [bitmaps EXCEPT
                          ![to] = Bitmap(ptr, FALSE, "into_shared"),
                          ![h] = [@ EXCEPT !.state = "dropped",
                                           !.ptr = PtrAfterDrop(TRUE, left)]]
        /\ freed' = FreedAfterDrop(freed, TRUE, left)
        /\ bmLast' = [op |-> "into_shared", result |-> "ok", fod |-> FALSE, ptr |-> ptr]
        /\ UNCHANGED allocated
        /\ UNCHANGED <<cacheVars, envReady, envVars, twoVars, printVars, targetVars>>

\* BitmapRef::into_bitmap (lines 110-112): a Bitmap that is not freed on drop
\* for a pointer some other owner holds
IntoBitmap(to, ptr) ==
    /\ Running
    /\ bitmaps[to].state = "unused"
    /\ ptr \in allocated
    /\ bitmaps' = [bitmaps EXCEPT ![to] = Bitmap(ptr, FALSE, "into_bitmap")]
    /\ bmLast' = [op |-> "into_bitmap", result |-> "ok", fod |-> FALSE, ptr |-> ptr]
    /\ UNCHANGED <<allocated, freed>>
    /\ UNCHANGED <<cacheVars, envReady, envVars, twoVars, printVars, targetVars>>

\* mask_with (lines 292-300): get_bitmap_mask returns the mask bitmap the C
\* side holds, or null
Mask(h, to, ptr) ==
    /\ Running
    /\ bitmaps[h].state = "live"
    /\ bitmaps[to].state = "unused"
    /\ ptr \in Pointers \cup {Null}
    /\ IF ptr = Null
       THEN /\ bmLast' = [op |-> "mask", result |-> "none", fod |-> FALSE, ptr |-> Null]
            /\ UNCHANGED <<bitmaps, allocated>>
       ELSE /\ bmLast' = [op |-> "mask", result |-> "ok", fod |-> FALSE, ptr |-> ptr]
            /\ bitmaps' = [bitmaps EXCEPT ![to] = Bitmap(ptr, FALSE, "mask")]
            /\ allocated' = allocated \cup {ptr}
    /\ UNCHANGED freed
    /\ UNCHANGED <<cacheVars, envReady, envVars, twoVars, printVars, targetVars>>

\* Drop for Bitmap (lines 189-197); also runs while a panic unwinds
Drop(h) ==
    /\ bitmaps[h].state = "live"
    /\ bitmaps' = [bitmaps EXCEPT
                      ![h] = [@ EXCEPT !.state = "dropped",
                                       !.ptr = PtrAfterDrop(bitmaps[h].fod, bitmaps[h].ptr)]]
    /\ freed' = FreedAfterDrop(freed, bitmaps[h].fod, bitmaps[h].ptr)
    /\ bmLast' = [op |-> "drop", result |-> bmLast.result, fod |-> bitmaps[h].fod,
                  ptr |-> bitmaps[h].ptr]
    /\ UNCHANGED allocated
    /\ UNCHANGED <<cacheVars, envReady, envVars, twoVars, printVars, targetVars>>

BitmapNext ==
    \/ \E h \in Handles, via \in {"new", "load"}, ptr \in Pointers \cup {Null} :
          NewOrLoad(h, via, ptr)
    \/ \E h \in Handles, to \in Handles, ptr \in Pointers \cup {Null} : Clone(h, to, ptr)
    \/ \E h \in Handles, to \in Handles : IntoShared(h, to)
    \/ \E to \in Handles, ptr \in Pointers : IntoBitmap(to, ptr)
    \/ \E h \in Handles, to \in Handles, ptr \in Pointers \cup {Null} : Mask(h, to, ptr)
    \/ \E h \in Handles : Drop(h)

SpecBitmap == BitmapInit /\ [][BitmapNext]_vars

----------------------------------------------------------------------------
(* Steps and outcomes the properties speak about *)

\* this step is a plan_for call that returned Some(CachedPlan)
Constructed == last'.op = "plan_for" /\ last'.result = "some"

\* the most recent call was an apply whose report had no failed mapping and
\* which returned it (the cache write, if any, succeeded)
AppliedClean == last.op = "apply" /\ last.report = "clean" /\ last.result = "ok"

\* the most recent call was an apply whose report has a failed mapping
AppliedWithErrors == last.op = "apply" /\ last.report = "errors"

\* the verdict the comparator contract gives for a cache file and a text
Classify(c, json) ==
    IF ~c.exists THEN "Missing"
    ELSE IF c.text = json THEN "Same" ELSE "Different"

\* the two sequences hold the same items, each as often
IsPermutation(p, q) ==
    /\ Len(p) = Len(q)
    /\ \A item \in Pairs :
          Cardinality({i \in 1..Len(p) : p[i] = item})
            = Cardinality({i \in 1..Len(q) : q[i] = item})

----------------------------------------------------------------------------
(* C1 *)

\* C1: whenever a call has written the cache file, that call is an apply
\* whose report had no errors and the file holds the canonical form of the
\* applied plan; no call writes the file for a plan that was not applied or
\* was applied with errors.
CacheInvariant ==
    (last.wrote /\ last.result = "ok") =>
        /\ last.op = "apply"
        /\ last.report = "clean"
        /\ cache = File(Canonical(cp.plan))

\* the same statement for the writes of apply alone
ApplyWritesOnlyCleanPlans ==
    (last.op = "apply" /\ last.wrote /\ last.result = "ok") =>
        /\ last.report = "clean"
        /\ cache = File(Canonical(cp.plan))

----------------------------------------------------------------------------
(* C2 *)

\* C2: an apply whose report has at least one failed mapping leaves the cache
\* file exactly as it was before the call: same content if it existed, still
\* absent if it did not.
NoCacheOnFailure ==
    [][(last'.op = "apply" /\ last'.report = "errors") => cache' = cache]_vars

\* a plan with a pending payload was applied, the report had errors, and the
\* file still disagrees with that payload
NoCacheOnFailureWitness ==
    /\ AppliedWithErrors
    /\ cp.serialized.some
    /\ Len(cp.plan) = MaxLen
    /\ cache # File(cp.serialized.data)

----------------------------------------------------------------------------
(* C3 *)

\* C3: a construction without force-rebuild yields Missing exactly when no
\* cache file exists, Same exactly when the file exists and its text equals
\* the fresh canonical form, Different exactly when it exists and differs;
\* exactly one of the three holds.
VerdictClassification ==
    [][(Constructed /\ ~last'.force) =>
          /\ cp'.difference \in {"Missing", "Same", "Different"}
          /\ (cp'.difference = "Missing") <=> ~cache.exists
          /\ (cp'.difference = "Same") <=>
                (cache.exists /\ cache.text = Canonical(cp'.plan))
          /\ (cp'.difference = "Different") <=>
                (cache.exists /\ cache.text # Canonical(cp'.plan))]_vars

\* a construction without force found an existing file holding another text
VerdictClassificationWitness ==
    /\ last.op = "plan_for" /\ last.result = "some" /\ ~last.force
    /\ cp.difference = "Different"
    /\ cache.exists
    /\ cache.text # Canonical(cp.plan)

----------------------------------------------------------------------------
(* C4 *)

\* C4: after a plan was constructed, applied with zero errors and persisted,
\* the next construction of a plan with the same canonical form, without
\* force-rebuild and with the cache file untouched in between, yields Same.
Idempotence ==
    [][(AppliedClean /\ Constructed /\ ~last'.force
          /\ Canonical(cp'.plan) = Canonical(cp.plan)) =>
          cp'.difference = "Same"]_vars

\* a plan that was Different was applied without errors and its canonical
\* form written over the old cache
IdempotenceWitness ==
    /\ AppliedClean
    /\ last.wrote
    /\ cp.computed = "Different"
    /\ Len(cp.plan) = MaxLen

----------------------------------------------------------------------------
(* C5 *)

\* C5: when the computed verdict is Missing or Different and apply returns a
\* report without errors, the cache file exists afterwards and its whole
\* content is the canonical form of the applied plan.
CommitOnSuccess ==
    (AppliedClean /\ cp.computed \in {"Missing", "Different"}) =>
        cache = File(Canonical(cp.plan))

\* a non-empty plan replaced a non-empty cache that disagreed
CommitOnSuccessWitness ==
    /\ AppliedClean
    /\ cp.computed = "Different"
    /\ cp.plan # <<>>
    /\ cache = File(Canonical(cp.plan))

----------------------------------------------------------------------------
(* C6 *)

\* C6: after an apply whose report contains a failed mapping, the next
\* construction of the same plan without force-rebuild yields Different or
\* Missing, never Same, whatever verdict the failed build had.
FailedBuildNeverTrusted ==
    [][(AppliedWithErrors /\ Constructed /\ ~last'.force /\ cp'.plan = cp.plan) =>
          cp'.difference \in {"Different", "Missing"}]_vars

----------------------------------------------------------------------------
(* C7 *)

\* C7: with force-rebuild set the CachedPlan plan_for returns has verdict
\* Missing for every cache state, also when the file equals the fresh
\* canonical form; without it the verdict is the computed one.
ForceOverridesVerdict ==
    [][Constructed =>
          cp'.difference = IF last'.force THEN "Missing"
                           ELSE Classify(cache, Canonical(cp'.plan))]_vars

\* force-rebuild met a cache file identical to the fresh canonical form
ForceOverridesVerdictWitness ==
    /\ last.op = "plan_for" /\ last.result = "some" /\ last.force
    /\ cache = File(Canonical(cp.plan))
    /\ cp.difference = "Missing"

----------------------------------------------------------------------------
(* C8 *)

\* C8: two orderings of the same collection of pairs get byte-identical
\* canonical text, so a cache written from one ordering yields Same for the
\* other, also when two pairs share a target path.
CanonicalFormDeterminism ==
    [][(AppliedClean /\ Constructed /\ ~last'.force
          /\ IsPermutation(cp'.plan, cp.plan)) =>
          /\ Canonical(cp'.plan) = Canonical(cp.plan)
          /\ cp'.difference = "Same"]_vars

----------------------------------------------------------------------------
(* C9 *)

\* C9: for empty rules plan_for returns None without running the environment
\* initializer or the plan builder and without probing, reading or writing
\* the cache file, whatever the force-rebuild flag; for non-empty rules with
\* no failing step it returns Some(CachedPlan).
EmptyRulesFastPath ==
    [][last'.op = "plan_for" =>
          /\ last'.rulesEmpty =>
                /\ last'.result = "none"
                /\ cp' = NoPlan
                /\ ~last'.envRan /\ envReady' = envReady
                /\ ~last'.builderRan
                /\ ~last'.probed /\ ~last'.read /\ ~last'.wrote
                /\ cache' = cache
          /\ (~last'.rulesEmpty /\ last'.fail = "none") =>
                /\ last'.result = "some"
                /\ cp'.state = "live"]_vars

\* empty rules with force-rebuild set, an empty Lazy cell and an existing file
EmptyRulesFastPathWitness ==
    /\ last.op = "plan_for" /\ last.rulesEmpty /\ last.force
    /\ last.result = "none"
    /\ ~envReady
    /\ cache.exists

----------------------------------------------------------------------------
(* C10 *)

\* C10: when the cache file exists and reading it fails, plan_for returns the
\* error, no CachedPlan and no verdict, and leaves the cache file untouched.
UnreadableCachePropagated ==
    [][(last'.op = "plan_for" /\ last'.fail = "read" /\ last'.read) =>
          /\ last'.result = "err"
          /\ cp' = NoPlan
          /\ cache' = cache]_vars

\* the read of an existing cache file failed
UnreadableCachePropagatedWitness ==
    /\ last.op = "plan_for" /\ last.fail = "read" /\ last.read
    /\ last.result = "err"
    /\ cache.exists /\ cache.text # <<>>

----------------------------------------------------------------------------
(* C11 *)

\* C11: a failed read of an existing cache file does not fail the
\* construction: plan_for still returns a CachedPlan, its verdict is Missing
\* and the fresh canonical form is retained as pending payload.
UnreadableCacheDegradesToMissing ==
    (last.op = "plan_for" /\ last.fail = "read" /\ last.read) =>
        /\ last.result = "some"
        /\ cp.state = "live"
        /\ cp.difference = "Missing"
        /\ cp.serialized = SomeStr(Canonical(cp.plan))

----------------------------------------------------------------------------
(* C12 *)

\* C12: when materialization gave a report without errors, apply delivers
\* that report to its caller, also when the write of the cache file failed.
FailedWriteKeepsReport ==
    (last.op = "apply" /\ last.report = "clean") => last.result = "ok"

----------------------------------------------------------------------------
(* C16 *)

\* C16 as claimed: a CachedPlan returned by plan_for holds a pending payload
\* exactly when its verdict is not Same.
PayloadIffVerdictNotSame ==
    (last.op = "plan_for" /\ last.result = "some") =>
        (cp.serialized.some <=> cp.difference # "Same")

\* C16 amended: a CachedPlan returned by plan_for holds a pending payload,
\* the fresh canonical form, exactly when the cache file does not hold that
\* form (the verdict computed before the force-rebuild override is not Same);
\* a verdict forced to Missing over a matching file carries no payload.
PayloadIffComputedNotSame ==
    (last.op = "plan_for" /\ last.result = "some") =>
        /\ cp.serialized.some <=> Classify(cache, Canonical(cp.plan)) # "Same"
        /\ cp.serialized.some => cp.serialized.data = Canonical(cp.plan)
        /\ (last.force /\ cache = File(Canonical(cp.plan))) =>
              (cp.difference = "Missing" /\ ~cp.serialized.some)

\* force-rebuild over a matching file: verdict Missing and no payload
PayloadIffComputedNotSameWitness ==
    /\ last.op = "plan_for" /\ last.result = "some" /\ last.force
    /\ Len(cp.plan) = MaxLen
    /\ cache = File(Canonical(cp.plan))
    /\ cp.difference = "Missing"
    /\ ~cp.serialized.some

----------------------------------------------------------------------------
(* C17 *)

\* C17: when the cache file equalled the fresh canonical form at
\* construction (forced to Missing or not), neither save nor apply, whatever
\* the apply outcome, writes the cache file: its content stays as it was.
MatchingCacheNeverRewritten ==
    [][(cp.state = "live" /\ cp.computed = "Same"
          /\ last'.op \in {"save", "apply"}) =>
          /\ ~last'.wrote
          /\ cache' = cache
          /\ cache' = File(Canonical(cp.plan))]_vars

\* a forced rebuild over a matching cache was applied without errors
MatchingCacheNeverRewrittenWitness ==
    /\ AppliedClean
    /\ cp.computed = "Same" /\ cp.difference = "Missing"
    /\ cp.plan # <<>>
    /\ ~last.wrote
    /\ cache = File(Canonical(cp.plan))

----------------------------------------------------------------------------
(* C18 *)

\* C18: every call of apply hands the plan to the materialization operation,
\* for each verdict: Same, Different, Missing and forced Missing.
ApplyIsUnconditional ==
    last.op = "apply" => last.materialized

\* apply was called on a plan whose verdict is Same
ApplyIsUnconditionalWitness ==
    /\ last.op = "apply"
    /\ cp.difference = "Same"
    /\ last.materialized
    /\ last.report = "errors"

----------------------------------------------------------------------------
(* C19 *)

----------------------------------------------------------------------------
(* C20 *)

\* C20: when the materialization operation itself returns an error, apply
\* returns that error and the cache file is as it was before the call, for
\* every verdict and with or without a pending payload.
HardFailureLeavesCache ==
    [][(last'.op = "apply" /\ last'.report = "none") =>
          /\ last'.result = "err"
          /\ ~last'.wrote
          /\ cache' = cache]_vars

\* a hard failure of an apply with a pending payload
HardFailureLeavesCacheWitness ==
    /\ last.op = "apply" /\ last.report = "none" /\ last.result = "err"
    /\ cp.serialized.some
    /\ cache # File(cp.serialized.data)

----------------------------------------------------------------------------
(* C14 *)

\* the keys of the explicit project variables
ExplicitKeys ==
    {"CARGO_PKG_NAME", "CARGO_MANIFEST_DIR"}
      \cup (IF sdkPath.some THEN {SDK_ENV_VAR} ELSE {})

\* C14: the Environment a get returns has as keys the explicit project keys
\* (the SDK key only with an SDK path configured) and the process environment
\* keys; an explicit key carries the explicit value also when the process
\* defines it, every other key the value of the process environment.
EnvironmentPrecedence ==
    got.result = "ok" =>
        /\ DOMAIN got.value = ExplicitKeys \cup DOMAIN procEnv
        /\ got.value["CARGO_PKG_NAME"] = PackageName
        /\ got.value["CARGO_MANIFEST_DIR"] = PackageRoot
        /\ sdkPath.some => got.value[SDK_ENV_VAR] = sdkPath.path
        /\ \A k \in DOMAIN procEnv \ ExplicitKeys : got.value[k] = procEnv[k]

\* a get succeeded with an SDK path configured while the process defines
\* every name, the explicit ones included
EnvironmentPrecedenceWitness ==
    /\ got.result = "ok"
    /\ sdkPath.some
    /\ DOMAIN procEnv = EnvKeys

----------------------------------------------------------------------------
(* C13 *)

\* the CachedPlan a build gets when it runs alone
AloneCachedPlan(pipe) ==
    PlanForValue(FALSE, pipe.force, pipe.plan, "none", TRUE, pipe.file0)

\* the cache file a build leaves when it runs alone: written by the saves
\* and the apply it has done so far
AloneFile(pipe) ==
    IF \/ pipe.saved /\ SaveWrites(AloneCachedPlan(pipe).serialized)
       \/ pipe.pc = "done" /\ ApplyWrites(pipe.errors, AloneCachedPlan(pipe).serialized)
    THEN File(AloneCachedPlan(pipe).serialized.data)
    ELSE pipe.file0

\* C13: for two builds with distinct cache paths, under every interleaving
\* of their steps (construct, save, apply), each build's verdict and pending
\* payload and the content of each cache file are what that build produces
\* when it runs alone; a cache file is changed by the steps of its own build
\* only.
IndependenceAcrossProjects ==
    \A package \in Projects :
        LET pipe == pipes[package]
        IN  /\ pipe.pc # "start" =>
                 /\ pipe.cp.difference = AloneCachedPlan(pipe).difference
                 /\ pipe.cp.serialized = AloneCachedPlan(pipe).serialized
            /\ files[AssetsPlanFor(package)] = AloneFile(pipe)

\* both builds are done, each wrote its own cache file, and the two files
\* differ
IndependenceAcrossProjectsWitness ==
    /\ \A package \in Projects :
          /\ pipes[package].pc = "done"
          /\ pipes[package].cp.serialized.some
          /\ ~pipes[package].errors
          /\ files[AssetsPlanFor(package)] = File(Canonical(pipes[package].plan))
    /\ files[AssetsPlanFor("game")] # files[AssetsPlanFor("demo")]

----------------------------------------------------------------------------
(* C21 *)

\* C21: a plan_for call (with CachedPlan::new inside it), whatever its verdict,
\* its force flag and its result, leaves the cache file as it was: neither
\* created, nor modified, nor deleted; a step that changes the cache file is a
\* save or an apply.
ConstructionIsReadOnly ==
    [][/\ last'.op = "plan_for" => cache' = cache
       /\ cache' # cache => last'.op \in {"save", "apply"}]_vars

\* plan_for has just compared a plan with an existing cache file that differs
\* from it, under force-rebuild
ConstructionIsReadOnlyWitness ==
    /\ last.op = "plan_for"
    /\ last.result = "some"
    /\ last.read
    /\ last.force
    /\ cache.exists
    /\ cache.text # Canonical(cp.plan)

----------------------------------------------------------------------------
(* C22 *)

\* a printed line is the title of a group
IsTitle(line) == line # <<>> /\ line[1] = "rule: "

\* a printed line shows the row, whatever the padding
Renders(line, row) ==
    \E max_len \in Len(row.left)..Len(line) : line = RowLine(row, max_len)

\* the title line a printed row stands under
GroupOf(lines, i) ==
    LET above == {j \in 1..i : IsTitle(lines[j])}
    IN  IF above = {} THEN <<>>
        ELSE lines[CHOOSE j \in above : \A k \in above : k <= j]

\* the rows of the plan that originate from a rule expression and equal row
PlanRows(exprs, row) ==
    {pos \in (1..Len(assets)) \X (1..Cardinality(Incs)) :
        /\ assets[pos[1]].exprs = exprs
        /\ pos[2] <= Len(RowsOf(assets[pos[1]]))
        /\ RowsOf(assets[pos[1]])[pos[2]] = row}

\* the printed lines under a rule expression's title that show row
PrintedRows(exprs, row) ==
    {i \in 1..Len(printed.lines) :
        /\ ~IsTitle(printed.lines[i])
        /\ GroupOf(printed.lines, i) = Title(exprs)
        /\ Renders(printed.lines[i], row)}

\* all rows a plan can hold
AllRows == UNION {{RowsOf(mapping)[i] : i \in 1..Len(RowsOf(mapping))} : mapping \in Mappings}

\* C22: after a pretty_print that returned Ok, every mapping of the plan
\* (every AsIs and Into mapping, every source of every ManyInto mapping) is
\* shown as exactly one `target <- source` row under the title of its rule
\* expression, also when several mappings originate from one rule expression.
PrintableProjectionComplete ==
    printed.result = "ok" =>
        \A exprs \in Exprs, row \in AllRows :
            Cardinality(PrintedRows(exprs, row)) = Cardinality(PlanRows(exprs, row))

----------------------------------------------------------------------------
(* C23 *)

\* C23: two pretty_print calls on the same plan that both returned Ok emitted
\* the same sequence of lines, whatever the iteration order of the sections.
PrintableProjectionStable ==
    [][(printed.result = "ok" /\ printed'.result = "ok")
          => printed'.lines = printed.lines]_vars

----------------------------------------------------------------------------
(* C24 *)

\* the positions of the packages that have a target the filter accepts
Kept(f, members) ==
    {i \in 1..Len(members) :
        \E j \in 1..Len(members[i].targets) :
            f.allTargets \/ members[i].targets[j] \in f.runs}

\* the k-th smallest number of a set
Nth(S, k) == CHOOSE i \in S : Cardinality({j \in S : j <= i}) = k

\* the positions of the targets of a package the filter accepts
KeptTargets(f, p) ==
    {j \in 1..Len(p.targets) : f.allTargets \/ p.targets[j] \in f.runs}

\* C24: a successful call yields, in input order, exactly the packages that
\* have at least one target accepted by the filter (all-targets, or
\* target_run holds), each with exactly its accepted targets in their order;
\* no yielded target list is empty.
TargetFiltering ==
    possible.result = "ok" =>
        LET kept == Kept(filter, possible.input)
        IN  /\ Len(possible.value) = Cardinality(kept)
            /\ \A k \in 1..Len(possible.value) :
                  LET p == possible.input[Nth(kept, k)]
                      targets == possible.value[k].targets
                  IN  /\ possible.value[k].package = p
                      /\ targets # <<>>
                      /\ Len(targets) = Cardinality(KeptTargets(filter, p))
                      /\ \A j \in 1..Len(targets) :
                            targets[j] = p.targets[Nth(KeptTargets(filter, p), j)]

\* a call on a list with a package that is dropped before one that is kept
\* with some of its targets only
TargetFilteringWitness ==
    /\ possible.result = "ok"
    /\ Len(possible.input) = 2
    /\ Len(possible.value) = 1
    /\ possible.value[1].package = possible.input[2]
    /\ Len(possible.value[1].targets) < Len(possible.input[2].targets)

----------------------------------------------------------------------------
(* C25 *)

\* C25: over every sequence of new, load, clone, into_shared, into_bitmap,
\* mask and drop, each C bitmap pointer is passed to free_bitmap at most once;
\* the drop of a Bitmap with FREE_ON_DROP = false frees nothing; into_shared,
\* with the drop of the original it ends with, frees nothing, and the pointer
\* is held, not freed, by the shared Bitmap.
BitmapOwnership ==
    [][/\ \A p \in Pointers : freed'[p] <= 1
       /\ (bmLast'.op = "drop" /\ ~bmLast'.fod) => freed' = freed
       /\ bmLast'.op = "into_shared" =>
             /\ freed' = freed
             /\ freed'[bmLast'.ptr] = 0
             /\ \E h \in Handles :
                   bitmaps'[h] = Bitmap(bmLast'.ptr, FALSE, "into_shared")]_vars

\* a shared Bitmap made by into_shared was dropped and its pointer is not
\* freed, a clone was dropped and its pointer is freed once
BitmapOwnershipWitness ==
    /\ \E h \in Handles :
          /\ bitmaps[h].origin = "into_shared"
          /\ bitmaps[h].state = "dropped"
          /\ freed[bitmaps[h].ptr] = 0
    /\ \E h \in Handles :
          /\ bitmaps[h].origin = "clone"
          /\ bitmaps[h].state = "dropped"
    /\ \E p \in Pointers : freed[p] = 1

====
